---- MODULE Spec2Model ----
(***************************************************************************)
(* A model of ctest.py: main() builds a C file, test() walks the tests     *)
(* directory and runs single_test() on every input fixture, then prints    *)
(* the results sorted by index, and coverage() runs the coverage meter.    *)
(*                                                                         *)
(* Python strings are sequences of one-character strings, so that          *)
(* str.strip, str.replace, string comparison and the regular expression    *)
(* are computed character by character, as the interpreter computes them.  *)
(***************************************************************************)
EXTENDS Integers, Sequences, FiniteSets, TLC

(***************************************************************************)
(* Bounds of the model.                                                    *)
(***************************************************************************)
\* longest stdout / expected-output text of the verdict specification
MaxLen == 3
\* most entries of the tests directory
MaxFiles == 4

(***************************************************************************)
(* Characters and strings.                                                 *)
(***************************************************************************)
SP == " "
NL == "\n"
\* the characters stdout and the expected-output file are made of
Alphabet == {SP, NL, "a"}

RECURSIVE StrUpTo(_)
\* every string over Alphabet of length at most n
StrUpTo(n) ==
    IF n = 0 THEN {<<>>}
    ELSE LET shorter == StrUpTo(n - 1)
         IN  shorter \cup {Append(s, c) : s \in {t \in shorter : Len(t) = n - 1}, c \in Alphabet}

\* the texts stdout and an expected-output file hold in the verdict
\* specification, and the few they hold in the directory specification
VerdictStrings == StrUpTo(MaxLen)
DirStrings == {<<>>, <<"a">>, <<"a", NL>>}

Drop(s, n) == SubSeq(s, n + 1, Len(s))

RECURSIVE LStrip(_, _)
LStrip(s, chars) ==
    IF s # <<>> /\ Head(s) \in chars THEN LStrip(Tail(s), chars) ELSE s

RECURSIVE RStrip(_, _)
RStrip(s, chars) ==
    IF s # <<>> /\ s[Len(s)] \in chars THEN RStrip(SubSeq(s, 1, Len(s) - 1), chars) ELSE s

\* str.strip(chars): leading and trailing characters of the set are removed
Strip(s, chars) == RStrip(LStrip(s, chars), chars)

\* s.startswith(tok) at offset i (0-based)
StartsWithAt(s, i, tok) ==
    /\ i + Len(tok) <= Len(s)
    /\ \A k \in 1..Len(tok) : s[i + k] = tok[k]

RECURSIVE Replace(_, _, _)
\* str.replace(old, new): every non-overlapping occurrence, left to right
Replace(s, old, new) ==
    IF s = <<>> THEN <<>>
    ELSE IF StartsWithAt(s, 0, old) THEN new \o Replace(Drop(s, Len(old)), old, new)
    ELSE <<Head(s)>> \o Replace(Tail(s), old, new)

Digits == {"0", "1", "2", "3", "4", "5", "6", "7", "8", "9"}

\* code point order of the digit characters
Ord(c) ==
    CASE c = "0" -> 48 [] c = "1" -> 49 [] c = "2" -> 50 [] c = "3" -> 51
      [] c = "4" -> 52 [] c = "5" -> 53 [] c = "6" -> 54 [] c = "7" -> 55
      [] c = "8" -> 56 [] c = "9" -> 57

RECURSIVE StrLess(_, _)
\* a < b on Python strings: lexicographic by code point, a proper prefix first
StrLess(a, b) ==
    IF b = <<>> THEN FALSE
    ELSE IF a = <<>> THEN TRUE
    ELSE IF Head(a) # Head(b) THEN Ord(Head(a)) < Ord(Head(b))
    ELSE StrLess(Tail(a), Tail(b))

(***************************************************************************)
(* File names and the configured pattern.                                  *)
(***************************************************************************)
POS == <<"p", "o", "s">>
NEG == <<"n", "e", "g">>
ERR == <<"e", "r", "r">>
ROLE_IN == <<"i", "n">>
ROLE_OUT == <<"o", "u", "t">>
US  == <<"_">>
DOT_TXT == <<".", "t", "x", "t">>
DOT_BAK == <<".", "b", "a", "k">>

\* the name prefix kind_seq_role.txt suffix
FileName(prefix, kind, seq, role, suffix) ==
    prefix \o kind \o US \o seq \o US \o role \o DOT_TXT \o suffix

\* "(pos|neg)_([0-9]{2})_(in|out)\.txt": the alternatives of the kind group in
\* order, and whether the sequence group is [0-9]{2} or [0-9]+
DefaultPattern == [kinds |-> <<POS, NEG>>, plus |-> FALSE]
\* "(pos|neg)_([0-9]+)_(in|out)\.txt", set in ctestconfig.json
WidePattern == [kinds |-> <<POS, NEG>>, plus |-> TRUE]
\* "(pos|neg|err)_([0-9]{2})_(in|out)\.txt", set in ctestconfig.json
KindPattern == [kinds |-> <<POS, NEG, ERR>>, plus |-> FALSE]

\* the values of config["test_file_regex"] the model draws
Patterns == {DefaultPattern, WidePattern, KindPattern}

\* the lengths the sequence group may capture
SeqLens(pat, name) == IF pat.plus THEN 1..Len(name) ELSE {2}

\* the groups (kind, sequence, role) of a match of the pattern that starts at
\* offset i of the name; at most one, since no alternative is a prefix of
\* another and the sequence group is followed by a non-digit
GroupsAt(name, i, pat) ==
    LET \* the text the sequence group captures, n characters after "kind_"
        seq(k, n) == SubSeq(name, i + Len(pat.kinds[k]) + 2, i + Len(pat.kinds[k]) + 1 + n)
        fits == {c \in (DOMAIN pat.kinds) \X SeqLens(pat, name) \X {ROLE_IN, ROLE_OUT} :
                    /\ i + Len(pat.kinds[c[1]]) + 1 + c[2] <= Len(name)
                    /\ \A j \in DOMAIN seq(c[1], c[2]) : seq(c[1], c[2])[j] \in Digits
                    /\ StartsWithAt(name, i, pat.kinds[c[1]] \o US \o seq(c[1], c[2])
                                              \o US \o c[3] \o DOT_TXT)}
    IN  {<<pat.kinds[c[1]], seq(c[1], c[2]), c[3]>> : c \in fits}

None == <<>>

\* re.search: the groups of the leftmost match anywhere in the name, or None
Search(name, pat) ==
    LET starts == {i \in 0..Len(name) : GroupsAt(name, i, pat) # {}}
    IN  IF starts = {} THEN None
        ELSE LET first == CHOOSE i \in starts : \A j \in starts : i <= j
             IN  CHOOSE g \in GroupsAt(name, first, pat) : TRUE

\* the entries the tests directory may hold
NamePool ==
    { FileName(<<>>, POS, <<"1", "0">>, ROLE_IN, <<>>),
      FileName(<<>>, POS, <<"1", "0">>, ROLE_OUT, <<>>),
      FileName(<<>>, POS, <<"2">>, ROLE_IN, <<>>),
      FileName(<<>>, POS, <<"2">>, ROLE_OUT, <<>>),
      FileName(<<>>, NEG, <<"0", "1">>, ROLE_IN, <<>>),
      FileName(<<>>, NEG, <<"0", "1">>, ROLE_OUT, <<>>),
      FileName(<<>>, ERR, <<"0", "1">>, ROLE_IN, <<>>),
      FileName(<<>>, ERR, <<"0", "1">>, ROLE_OUT, <<>>),
      FileName(<<>>, POS, <<"0", "3">>, ROLE_IN, DOT_BAK),
      FileName(<<"m", "a", "i", "n", "_">>, NEG, <<"0", "4">>, ROLE_IN, <<>>) }

\* Search over every entry and pattern of the model, computed once
SearchTable == [pat \in Patterns |-> [name \in NamePool |-> Search(name, pat)]]

\* test_file_regex.search(file_name)
Matches(file_name, pat) == SearchTable[pat][file_name]

(***************************************************************************)
(* single_test's verdict and the report's order.                           *)
(***************************************************************************)
\* the exit codes the program under test returns in the model
ExitCodes == {0, 1}

\* the characters read().strip(" \n") removes
StripChars == {SP, NL}

\* single_test with the check of the negative tests' exit code left out
SuccessPositiveOnly(test_type, return_code, output, expected_output) ==
    IF test_type = POS /\ return_code # 0
    THEN FALSE
    ELSE output = expected_output

\* success of single_test: False when the exit code contradicts the test
\* type, else whether stdout equals the stripped expected output
Success(test_type, return_code, output, expected_output) ==
    IF \/ (test_type = POS /\ return_code # 0)
       \/ (test_type = NEG /\ return_code = 0)
    THEN FALSE
    ELSE output = expected_output

\* the key of sorted(): the index token, compared as a Python string
KeyLess(a, b) == StrLess(a.index, b.index)

RECURSIVE Insert(_, _)
\* t put after every entry whose key is not greater than its own
Insert(sorted, t) ==
    IF sorted = <<>> THEN <<t>>
    ELSE IF KeyLess(t, Head(sorted)) THEN <<t>> \o sorted
    ELSE <<Head(sorted)>> \o Insert(Tail(sorted), t)

RECURSIVE Sorted(_)
\* sorted(results, key=lambda i: i[0]): ascending by key, stable
Sorted(results) ==
    IF results = <<>> THEN <<>>
    ELSE Insert(Sorted(SubSeq(results, 1, Len(results) - 1)), results[Len(results)])

\* a str and a Path never compare equal, two values of one type do by name
PyStr(name) == [type |-> "str", name |-> name]
PyPath(name) == [type |-> "Path", name |-> name]

\* file_name in done_tests
InList(value, list) == \E j \in DOMAIN list : list[j] = value

(***************************************************************************)
(* The state of one run of main().                                         *)
(***************************************************************************)
VARIABLES
    src_exists,     \* file_path.exists()
    tests_exists,   \* tests_path.exists()
    cfg,            \* the compiled config["test_file_regex"]
    dir,            \* the entries of the tests directory
    pc,             \* where main() is
    phases,         \* the phases called so far: build, test, coverage
    todo,           \* the entries tests_path.iterdir() has yet to yield
    done_tests,     \* test(): done_tests
    test_results,   \* test(): test_results
    shown,          \* the test data displayed, in order, per group
    err,            \* the error that ended the run
    fs_read,        \* the contents of the expected-output files read so far
    runs,           \* history: the processes started, in order
    verdicts        \* history: the results appended to test_results, in order

vars == <<src_exists, tests_exists, cfg, dir, pc, phases, todo, done_tests,
          test_results, shown, err, fs_read, runs, verdicts>>

env == <<src_exists, tests_exists, cfg, dir>>

NoResults == (POS :> <<>>) @@ (NEG :> <<>>)

\* the state main() starts in, but for the environment
Fresh ==
    /\ pc = "start"
    /\ phases = <<>>
    /\ todo = {}
    /\ done_tests = <<>>
    /\ test_results = NoResults
    /\ shown = NoResults
    /\ err = "none"
    /\ fs_read = <<>>
    /\ runs = <<>>
    /\ verdicts = <<>>

\* any source file, configuration and tests directory
Init ==
    /\ src_exists \in BOOLEAN
    /\ tests_exists \in BOOLEAN
    /\ cfg \in Patterns
    /\ dir \in {d \in SUBSET NamePool : Cardinality(d) <= MaxFiles}
    /\ tests_exists = FALSE => dir = {}
    /\ Fresh

\* a single pair of fixtures under the default configuration
InitVerdict ==
    /\ src_exists = TRUE
    /\ tests_exists = TRUE
    /\ cfg = DefaultPattern
    /\ dir \in { {FileName(<<>>, POS, <<"1", "0">>, ROLE_IN, <<>>),
                  FileName(<<>>, POS, <<"1", "0">>, ROLE_OUT, <<>>)},
                 {FileName(<<>>, NEG, <<"0", "1">>, ROLE_IN, <<>>),
                  FileName(<<>>, NEG, <<"0", "1">>, ROLE_OUT, <<>>)} }
    /\ Fresh

(***************************************************************************)
(* main()                                                                  *)
(***************************************************************************)
\* main: the source file does not exist, an error is printed and main returns
MainNoSource ==
    /\ pc = "start"
    /\ ~src_exists
    /\ pc' = "done"
    /\ err' = "no source"
    /\ UNCHANGED <<env, phases, todo, done_tests, test_results, shown, fs_read,
                   runs, verdicts>>

\* main returning after build() only when nothing was built
ReturnsOnlyWithoutExecutable(executable_path, run_tests) ==
    executable_path = None

\* main: the return that follows build()
ReturnsAfterBuild(executable_path, run_tests) ==
    executable_path = None \/ ~run_tests

\* main: run_tests is set, build() is called, and main returns unless an
\* executable was built and the tests directory exists
MainBuild ==
    /\ pc = "start"
    /\ src_exists
    /\ \E executable_path \in {None, <<"e", "x", "e">>} :
        LET run_tests == tests_exists
        IN  pc' = IF ReturnsAfterBuild(executable_path, run_tests) THEN "done" ELSE "test"
    /\ phases' = Append(phases, "build")
    /\ UNCHANGED <<env, todo, done_tests, test_results, shown, err, fs_read,
                   runs, verdicts>>

(***************************************************************************)
(* test()                                                                  *)
(***************************************************************************)
\* test: the lists are created and tests_path.iterdir() starts, which raises
\* when the directory does not exist
TestBegin ==
    /\ pc = "test"
    /\ phases' = Append(phases, "test")
    /\ done_tests' = <<>>
    /\ test_results' = NoResults
    /\ IF tests_exists
       THEN /\ todo' = dir
            /\ pc' = "loop"
            /\ err' = err
       ELSE /\ todo' = {}
            /\ pc' = "crashed"
            /\ err' = "FileNotFoundError"
    /\ UNCHANGED <<env, shown, fs_read, runs, verdicts>>

\* test: the entry is passed over: it is in done_tests, the pattern is not
\* found in its name, or its role is not "in"
IsSkipped(file_name) ==
    \/ InList(PyStr(file_name), done_tests)
    \/ IF Matches(file_name, cfg) = None THEN TRUE
       ELSE Matches(file_name, cfg)[3] # ROLE_IN

\* test: the name of the expected-output file of an input file
OutputFileName(file_name) == Replace(file_name, ROLE_IN, ROLE_OUT)

\* test: one iteration of the loop over an entry that is passed over
TestSkip ==
    /\ pc = "loop"
    /\ \E file_name \in todo :
        /\ IsSkipped(file_name)
        /\ todo' = todo \ {file_name}
    /\ UNCHANGED <<env, pc, phases, done_tests, test_results, shown, err, fs_read,
                   runs, verdicts>>

\* test: one iteration of the loop over an input file: single_test starts the
\* executable, reads the expected output (an error when the file is missing),
\* and its result is appended to the list of its test type (an error when the
\* type has no list); contents are strings of the set S
TestCase(S) ==
    /\ pc = "loop"
    /\ \E file_name \in todo :
        /\ ~IsSkipped(file_name)
        /\ LET matches == Matches(file_name, cfg)
               test_type == matches[1]
               index == matches[2]
               output_file == OutputFileName(file_name)
           IN  \E return_code \in ExitCodes, output \in S :
               /\ todo' = todo \ {file_name}
               /\ runs' = Append(runs, [file |-> file_name, output_file |-> output_file])
               /\ IF output_file \notin dir
                  THEN /\ pc' = "crashed"
                       /\ err' = "FileNotFoundError"
                       /\ UNCHANGED <<done_tests, test_results, fs_read, verdicts>>
                  ELSE \E content \in (IF output_file \in DOMAIN fs_read
                                       THEN {fs_read[output_file]} ELSE S) :
                       LET expected_output == Strip(content, StripChars)
                           success == Success(test_type, return_code, output,
                                              expected_output)
                           result == [index |-> index, success |-> success,
                                      code |-> return_code, output |-> output,
                                      expected_output |-> expected_output]
                       IN  /\ fs_read' = (output_file :> content) @@ fs_read
                           /\ IF test_type \notin DOMAIN test_results
                              THEN /\ pc' = "crashed"
                                   /\ err' = "KeyError"
                                   /\ UNCHANGED <<done_tests, test_results, verdicts>>
                              ELSE /\ test_results' =
                                        [test_results EXCEPT ![test_type] = Append(@, result)]
                                   /\ done_tests' = done_tests \o
                                        <<PyPath(file_name), PyPath(output_file)>>
                                   /\ verdicts' = Append(verdicts,
                                        [file |-> file_name, group |-> test_type,
                                         success |-> success])
                                   /\ UNCHANGED <<pc, err>>
    /\ UNCHANGED <<env, phases, shown>>

\* test: the loop is over, both lists are displayed sorted by index
TestReport ==
    /\ pc = "loop"
    /\ todo = {}
    /\ shown' = [k \in DOMAIN test_results |-> Sorted(test_results[k])]
    /\ pc' = "coverage"
    /\ UNCHANGED <<env, phases, todo, done_tests, test_results, err, fs_read,
                   runs, verdicts>>

\* main: coverage() is called and main returns
Coverage ==
    /\ pc = "coverage"
    /\ phases' = Append(phases, "coverage")
    /\ pc' = "done"
    /\ UNCHANGED <<env, todo, done_tests, test_results, shown, err, fs_read,
                   runs, verdicts>>

Next ==
    \/ MainNoSource
    \/ MainBuild
    \/ TestBegin
    \/ TestSkip
    \/ TestCase(DirStrings)
    \/ TestReport
    \/ Coverage

Spec == Init /\ [][Next]_vars

NextVerdict ==
    \/ MainBuild
    \/ TestBegin
    \/ TestSkip
    \/ TestCase(VerdictStrings)
    \/ TestReport
    \/ Coverage

SpecVerdict == InitVerdict /\ [][NextVerdict]_vars

(***************************************************************************)
(* Notions the properties are stated with.                                 *)
(***************************************************************************)
\* main() has returned or has ended with an uncaught error
Final == pc \in {"done", "crashed"}

Called(phase) == \E i \in DOMAIN phases : phases[i] = phase

\* every kind the pattern can capture is "pos" or "neg"
KindsKnown(pat) == \A k \in DOMAIN pat.kinds : pat.kinds[k] \in {POS, NEG}

\* the exit code contradicts the test type
Contradicts(test_type, return_code) ==
    \/ (test_type = POS /\ return_code # 0)
    \/ (test_type = NEG /\ return_code = 0)

\* the groups of a match of the pattern with the whole name, or None
WholeGroups(name, pat) ==
    LET whole == {g \in GroupsAt(name, 0, pat) :
                    Len(g[1]) + Len(g[2]) + Len(g[3]) + Len(DOT_TXT) + 2 = Len(name)}
    IN  IF whole = {} THEN None ELSE CHOOSE g \in whole : TRUE

WholeTable == [pat \in Patterns |-> [name \in NamePool |-> WholeGroups(name, pat)]]

\* the entry is an input fixture: its whole name matches, with the role "in"
IsInputFixture(name, pat) ==
    IF WholeTable[pat][name] = None THEN FALSE ELSE WholeTable[pat][name][3] = ROLE_IN

\* the name with the role token of its leftmost match changed to "out" and
\* nothing else changed
SwapRole(name, pat) ==
    LET start == CHOOSE i \in 0..Len(name) :
                    /\ GroupsAt(name, i, pat) # {}
                    /\ \A j \in 0..(i - 1) : GroupsAt(name, j, pat) = {}
        g == Search(name, pat)
        at == start + Len(g[1]) + Len(g[2]) + 2
    IN  SubSeq(name, 1, at) \o ROLE_OUT \o SubSeq(name, at + Len(ROLE_IN) + 1, Len(name))

SwapTable == [pat \in Patterns |-> [name \in NamePool |->
                IF Search(name, pat) = None THEN None ELSE SwapRole(name, pat)]]

RECURSIVE NumVal(_)
\* the number a sequence token denotes
NumVal(token) ==
    IF token = <<>> THEN 0
    ELSE 10 * NumVal(SubSeq(token, 1, Len(token) - 1)) + (Ord(token[Len(token)]) - Ord("0"))

RunsOf(name) == Cardinality({i \in DOMAIN runs : runs[i].file = name})
VerdictsOf(name) == {i \in DOMAIN verdicts : verdicts[i].file = name}

(***************************************************************************)
(* Properties.                                                             *)
(***************************************************************************)
\* C1: a negative test whose process exits with a non-zero code passes,
\* whatever stdout and the expected-output file hold.
C1_NegativeNonZeroPasses ==
    \A i \in DOMAIN test_results[NEG] :
        test_results[NEG][i].code # 0 => test_results[NEG][i].success

\* C2: a positive test whose process exits with code 0 passes if and only if
\* stdout and the expected output are equal once leading and trailing spaces
\* and newlines are removed from both.
C2_PositiveComparesTrimmed ==
    \A i \in DOMAIN test_results[POS] :
        LET r == test_results[POS][i]
        IN  r.code = 0 =>
              (r.success <=> Strip(r.output, StripChars) = Strip(r.expected_output, StripChars))

\* C3: a test whose exit code contradicts its type (positive and non-zero,
\* negative and zero) fails, whatever stdout and the expected output hold.
C3_ContradictedExitFails ==
    \A k \in {POS, NEG} : \A i \in DOMAIN test_results[k] :
        Contradicts(k, test_results[k][i].code) => ~test_results[k][i].success

\* C3 happens: a test whose exit code contradicts its type was judged with
\* stdout equal to the expected output, both non-empty
C3_Witness ==
    \E k \in {POS, NEG} : \E i \in DOMAIN test_results[k] :
        /\ Contradicts(k, test_results[k][i].code)
        /\ test_results[k][i].output = test_results[k][i].expected_output
        /\ test_results[k][i].output # <<>>

\* C4: when an input fixture has no expected-output file (the kinds of the
\* pattern being pos and neg), the test phase ends normally, every input
\* fixture of the directory has a verdict, and that of the fixture without
\* expected output is a failure.
C4_MissingExpectedIsOneFailure ==
    ( /\ Final
      /\ Called("test")
      /\ KindsKnown(cfg)
      /\ \E f \in dir : IsInputFixture(f, cfg) /\ OutputFileName(f) \notin dir )
    => /\ pc = "done"
       /\ \A f \in dir : IsInputFixture(f, cfg) =>
            /\ VerdictsOf(f) # {}
            /\ OutputFileName(f) \notin dir =>
                 \A i \in VerdictsOf(f) : ~verdicts[i].success

\* C5: within each group the report shows the tests in numeric order of
\* their sequence tokens.
C5_ReportInNumericOrder ==
    \A k \in DOMAIN shown : \A i, j \in DOMAIN shown[k] :
        i < j => NumVal(shown[k][i].index) <= NumVal(shown[k][j].index)

\* C6: the executable is run, and a verdict is added, only for an entry
\* whose whole name matches the pattern.
C6_OnlyWholeNamesAreTests ==
    /\ \A i \in DOMAIN runs : WholeTable[cfg][runs[i].file] # None
    /\ \A i \in DOMAIN verdicts : WholeTable[cfg][verdicts[i].file] # None

\* C7: once main has ended after the test phase began, every input fixture
\* whose expected-output file exists was run exactly once and has exactly one
\* verdict, in the group of its kind; no expected-output file is ever run.
\* (Stated for the directories in which every matching entry matches as a
\* whole, under a pattern whose kinds are pos and neg.)
C7_EachPairRunOnce ==
    /\ \A i \in DOMAIN runs :
          WholeTable[cfg][runs[i].file] # None => WholeTable[cfg][runs[i].file][3] # ROLE_OUT
    /\ ( /\ Final
         /\ Called("test")
         /\ KindsKnown(cfg)
         /\ \A f \in dir : Matches(f, cfg) # None => WholeTable[cfg][f] # None )
       => \A f \in dir :
            (IsInputFixture(f, cfg) /\ OutputFileName(f) \in dir) =>
                /\ RunsOf(f) = 1
                /\ Cardinality(VerdictsOf(f)) = 1
                /\ \A i \in VerdictsOf(f) : verdicts[i].group = WholeTable[cfg][f][1]

\* C8 as stated: with the source file present and the tests directory
\* absent, main skips the test phase and attempts the build and the coverage.
C8_AsStated ==
    (pc = "done" /\ src_exists /\ ~tests_exists) =>
        (Called("build") /\ Called("coverage") /\ ~Called("test"))

\* C8, amended: with the source file present and the tests directory absent,
\* main attempts the build and returns: neither the test phase nor the
\* coverage phase is attempted.
C8_OnlyBuildWithoutTestsDir ==
    (Final /\ src_exists /\ ~tests_exists) => (pc = "done" /\ phases = <<"build">>)

\* C8 happens: main has returned after the build, the tests directory absent
C8_Witness ==
    pc = "done" /\ src_exists /\ ~tests_exists /\ phases = <<"build">>

\* C9: under a pattern whose kind group can capture a token other than pos
\* and neg, the executable is started for no fixture, and a test phase that
\* has ended has ended with the error. (Stated for the directories that hold
\* the expected-output file of every input file.)
C9_UnknownKindBeforeAnyCase ==
    ( /\ ~KindsKnown(cfg)
      /\ \A f \in dir : ~IsSkipped(f) => OutputFileName(f) \in dir )
    => /\ runs = <<>>
       /\ (Final /\ Called("test")) => err # "none"

\* C10: the expected-output name derived for an input file is its name with
\* the role token alone changed to "out", and it matches the pattern with the
\* same kind and sequence and the role "out".
C10_OnlyRoleTokenChanged ==
    \A i \in DOMAIN runs :
        /\ runs[i].output_file = SwapTable[cfg][runs[i].file]
        /\ Search(runs[i].output_file, cfg) =
              <<Matches(runs[i].file, cfg)[1], Matches(runs[i].file, cfg)[2], ROLE_OUT>>

====
